---------------------------- MODULE Spec2Model ----------------------------
(***************************************************************************)
(* Model of cutechess_batches.py: the statistics estimator (elo,           *)
(* calc_stats), the single-worker batch runner (CutechessLocalBatch.run),  *)
(* the distributed coordinator (CutechessExecutorBatch.run) and the entry  *)
(* orchestration (__main__).                                               *)
(*                                                                         *)
(* Three state machines share the variables:                               *)
(*   SpecMain  - __main__ up to the construction of the executor batch,    *)
(*               over a wide range of games_per_batch and workers;         *)
(*   Spec      - the whole program: construction, dispatch of the          *)
(*               sub-batches to the pool, the workers' runs, collection    *)
(*               with as_completed, and calc_stats on the merged list;     *)
(*   SpecLocal - one CutechessLocalBatch.run in detail: parameter          *)
(*               validation, book check, the external process and the      *)
(*               parsing of its output.                                    *)
(* FairSpec is Spec with weak fairness of the coordinator and the workers. *)
(***************************************************************************)
EXTENDS Integers, Sequences, FiniteSets, TLC

VARIABLES
    games_per_batch,  \* args.games_per_batch
    workers,          \* MPI.COMM_WORLD.Get_size() - 1
    variables,        \* the parameter assignment (json.load): sequence of values
    book,             \* the opening book file name, as a sequence of characters
    rounds,           \* CutechessLocalBatch.rounds
    batches,          \* CutechessExecutorBatch.batches
    total_games,      \* CutechessExecutorBatch.total_games
    pc,               \* position of the main thread / coordinator
    fs,               \* the list of futures of CutechessExecutorBatch.run
    yielded,          \* indices of fs that as_completed has yielded, in order
    score,            \* the list accumulated by CutechessExecutorBatch.run
    raised,           \* the exception that left CutechessExecutorBatch.run
    stats,            \* what calc_stats(results) gave
    lpc,              \* position of one CutechessLocalBatch.run (SpecLocal)
    spawned,          \* whether that run has started the external process
    returncode,       \* process.returncode of that run
    output,           \* the lines the external process printed
    lines,            \* the sorted "Finished game" lines of that run
    local_score,      \* the list that run returns
    local_exc         \* the exception that run ends in

mainVars  == <<games_per_batch, workers, variables, book, rounds, batches, total_games>>
coordVars == <<pc, fs, yielded, score, raised, stats>>
localVars == <<lpc, spawned, returncode, output, lines, local_score, local_exc>>
vars      == <<mainVars, coordVars, localVars>>

---------------------------------------------------------------------------
(* Bounds of the model *)

\* largest games_per_batch of SpecMain
MaxGames == 30
\* largest number of workers of SpecMain
MaxMainWorkers == 4
\* largest number of workers (= batches) of Spec
MaxBatches == 2
\* largest number of lines the external process prints
MaxLines == 2
\* largest number of entries of the parameter assignment
MaxParams == 2

---------------------------------------------------------------------------
(* Sequences *)

RECURSIVE Count(_, _)
\* the number of entries of s equal to x
Count(s, x) ==
    IF s = <<>> THEN 0
    ELSE (IF Head(s) = x THEN 1 ELSE 0) + Count(Tail(s), x)

RECURSIVE SeqsUpTo(_, _)
\* all sequences over S of length at most n
SeqsUpTo(S, n) ==
    IF n = 0 THEN {<<>>}
    ELSE LET shorter == SeqsUpTo(S, n - 1)
         IN  shorter \cup {Append(s, x) : s \in shorter, x \in S}

RECURSIVE Flatten(_)
\* the concatenation of the sequences of ss, in order
Flatten(ss) ==
    IF ss = <<>> THEN <<>> ELSE Head(ss) \o Flatten(Tail(ss))

---------------------------------------------------------------------------
(* Exact arithmetic for the estimator.  A Python float computed from the   *)
(* counts is modelled by the rational number it approximates, kept as a    *)
(* reduced fraction [num, den] with den > 0.  sqrt, log10 and norm.cdf are *)
(* kept as terms over their exact arguments.                               *)

Abs(x) == IF x < 0 THEN -x ELSE x

RECURSIVE Gcd(_, _)
Gcd(a, b) == IF b = 0 THEN a ELSE Gcd(b, a % b)

\* the fraction n/d (d # 0), reduced
Frac(n, d) ==
    LET g == Gcd(Abs(n), Abs(d))
        sgn == IF d < 0 THEN -1 ELSE 1
    IN  [num |-> sgn * (n \div g), den |-> sgn * (d \div g)]

FInt(n)    == Frac(n, 1)
\* x.den and y.den divided by their common divisor g: the products stay small
FAdd(x, y) ==
    LET g == Gcd(x.den, y.den)
    IN  Frac(x.num * (y.den \div g) + y.num * (x.den \div g), (x.den \div g) * y.den)
FSub(x, y) == FAdd(x, [num |-> -y.num, den |-> y.den])
FMul(x, y) == Frac(x.num * y.num, x.den * y.den)
FDiv(x, y) == Frac(x.num * y.den, x.den * y.num)
FLess(x, y) ==
    LET g == Gcd(x.den, y.den)
    IN  x.num * (y.den \div g) < y.num * (x.den \div g)
FMax(x, y) == IF FLess(x, y) THEN y ELSE x
FMin(x, y) == IF FLess(x, y) THEN x ELSE y
FSquare(x) == FMul(x, x)

\* epsilon = 1e-6 of elo
epsilon == Frac(1, 1000000)

\* elo(score): the clamped score c gives -400.0 * log10(1.0 / c - 1.0);
\* the value is the term [times, log10] over the exact argument of log10
elo(s) ==
    LET c == FMax(epsilon, FMin(FSub(FInt(1), epsilon), s))
    IN  [times |-> -400, log10 |-> FSub(FDiv(FInt(1), c), FInt(1))]

\* mutant of wld: the loop starts at the second entry (result[1:])
wldSkipFirst(result) ==
    LET rest == IF result = <<>> THEN <<>> ELSE Tail(result)
    IN  <<Count(rest, "w"), Count(rest, "l"), Count(rest, "d")>>

\* the counting loop of calc_stats: wld[0], wld[1], wld[2]
wld(result) == <<Count(result, "w"), Count(result, "l"), Count(result, "d")>>

\* the confidence multiplier 1.95716 of calc_stats
Z95 == Frac(195716, 100000)

\* calc_stats(result).  games = 0 makes the division of line 42 raise
\* ZeroDivisionError; nothing catches it.
calc_stats(result) ==
    LET c      == wld(result)
        games  == c[1] + c[2] + c[3]
    IN  IF games = 0
        THEN [error |-> "ZeroDivisionError"]
        ELSE
        LET sc     == FDiv(FAdd(FInt(c[1]), Frac(c[3], 2)), FInt(games))
            devw   == FDiv(FMul(FSquare(FSub(FInt(1), sc)), FInt(c[1])), FInt(games))
            devl   == FDiv(FMul(FSquare(FSub(FInt(0), sc)), FInt(c[2])), FInt(games))
            devd   == FDiv(FMul(FSquare(FSub(Frac(1, 2), sc)), FInt(c[3])), FInt(games))
            \* stddev = sqrt(devw + devl + devd) / sqrt(games)
            stddev == [sqrt |-> FDiv(FAdd(FAdd(devw, devl), devd), FInt(games))]
            \* a = (w - l) / sqrt(w + l), or 0.0: its sign and its square
            a      == IF c[1] # c[2]
                      THEN [sign |-> IF c[1] > c[2] THEN 1 ELSE -1,
                            square |-> Frac((c[1] - c[2]) * (c[1] - c[2]), c[1] + c[2])]
                      ELSE [sign |-> 0, square |-> FInt(0)]
            err    == [times |-> Z95, stddev |-> stddev]
        IN  [error       |-> "none",
             score       |-> sc,
             score_error |-> err,
             Elo         |-> elo(sc),
             \* (elo(score + err) - elo(score - err)) / 2
             Elo_error   |-> [halfwidth_of_elo_around |-> sc, by |-> err],
             LOS         |-> [norm_cdf |-> a]]

---------------------------------------------------------------------------
(* CutechessLocalBatch.run: parameters and book *)

\* JSON values a parameter can have: a number, a numeric string, a string
\* that is no number, null
Values == {"1.5", "'2'", "'abc'", "null"}

\* float(v): "ok", or the exception it raises
float(v) ==
    CASE v = "1.5"   -> "ok"
      [] v = "'2'"   -> "ok"
      [] v = "'abc'" -> "ValueError"
      [] v = "null"  -> "TypeError"

\* the name of the j-th entry of the parameter assignment
ParamName(j) == <<"p1", "p2", "p3", "p4">>[j]

\* parameter assignments: the values of p1, p2, ... in the order of the file
Assignments == SeqsUpTo(Values, MaxParams)

\* book file names
Books == { <<"x", ".", "e", "p", "d">>, <<"x", ".", "p", "g", "n">>,
           <<"x", ".", "b", "i", "n">> }

\* re.compile("(pgn|epd)$").search(self.book): the extension, or "" for None
Extension(b) ==
    LET n    == Len(b)
        last == IF n >= 3 THEN SubSeq(b, n - 2, n) ELSE <<>>
    IN  CASE last = <<"p", "g", "n">> -> "pgn"
          [] last = <<"e", "p", "d">> -> "epd"
          [] OTHER -> ""

NoExc == [kind |-> "none", msg |-> "", arg |-> ""]

\* the first parameter whose float() raises, or 0
FirstBad(vs) ==
    LET bad == {j \in 1..Len(vs) : float(vs[j]) # "ok"}
    IN  IF bad = {} THEN 0 ELSE CHOOSE j \in bad : \A k \in bad : j <= k

\* What the handler of ValueError does (lines 103-106): it builds the
\* message from argv[i] and argv[i + 1]; neither argv nor i is a name of the
\* module or of run, so evaluating the message raises NameError and sys.exit
\* is never called.
ValueErrorHandler(name) ==
    [kind |-> "NameError", msg |-> "name is not defined", arg |-> "argv"]

\* Lines 98-117 of run: the exception the run ends in before the external
\* process is started, or NoExc
Prepare(vs, b) ==
    LET j == FirstBad(vs)
    IN  IF j # 0
        THEN IF float(vs[j]) = "ValueError"
             THEN ValueErrorHandler(ParamName(j))
             ELSE [kind |-> "TypeError", msg |-> "float() argument must be a string or a number",
                   arg |-> "NoneType"]
        ELSE IF Extension(b) = ""
             THEN [kind |-> "SystemExit", msg |-> "books must have epd or pgn extension", arg |-> "book"]
             ELSE NoExc

\* sys.exit of line 141
CommandFailed ==
    [kind |-> "SystemExit", msg |-> "failed to execute command", arg |-> "command"]

---------------------------------------------------------------------------
(* CutechessLocalBatch.run: the output of the external process *)

Pairings == {"test vs base", "base vs test"}
\* results of a finished game; "*" is a game without result
GameResults == {"1-0", "0-1", "1/2-1/2", "*"}

\* "Finished game <num> (<pairing>): <result> {...}"
FinishedLine(n, p, r) == [head |-> "Finished game", num |-> n, pairing |-> p, result |-> r]
\* "Started game <num> of <total> (<pairing>)"
StartedLine(n, p) == [head |-> "Started game", num |-> n, pairing |-> p, result |-> ""]

LineKinds ==
    {FinishedLine(n, p, r) : n \in 1..MaxLines, p \in Pairings, r \in GameResults}
    \cup {StartedLine(n, p) : n \in 1..MaxLines, p \in Pairings}

\* no two finished lines carry the same game number
DistinctGames(out) ==
    \A i, j \in 1..Len(out) :
        (i # j /\ out[i].head = "Finished game" /\ out[j].head = "Finished game")
            => out[i].num # out[j].num

\* what the external process can print
Outputs == {out \in SeqsUpTo(LineKinds, MaxLines) : DistinctGames(out)}

\* lines 144-147: the lines that start with "Finished game"
FinishedLines(out) == SelectSeq(out, LAMBDA l : l.head = "Finished game")

RECURSIVE Insert(_, _)
\* l put into the sorted ls behind every line whose key is not larger
Insert(ls, l) ==
    IF ls = <<>> THEN <<l>>
    ELSE IF Head(ls).num <= l.num THEN <<Head(ls)>> \o Insert(Tail(ls), l)
    ELSE <<l>> \o ls

RECURSIVE SortByGame(_)
\* line 149: lines.sort(key=lambda l: float(l.split()[2])), a stable sort
SortByGame(ls) ==
    IF ls = <<>> THEN <<>>
    ELSE Insert(SortByGame(SubSeq(ls, 1, Len(ls) - 1)), ls[Len(ls)])

\* mutant of ScoreOfLine: the 0-1 branch copied from the 1-0 branch
ScoreOfLineCopied(l) ==
    IF l.result = "1-0" \/ l.result = "0-1"
    THEN (IF l.pairing = "test vs base" THEN <<"w">> ELSE <<>>)
         \o (IF l.pairing = "base vs test" THEN <<"l">> ELSE <<>>)
    ELSE IF l.result = "1/2-1/2"
    THEN <<"d">>
    ELSE <<>>

\* lines 153-166: what one line appends to score
ScoreOfLine(l) ==
    IF l.result = "1-0"
    THEN (IF l.pairing = "test vs base" THEN <<"w">> ELSE <<>>)
         \o (IF l.pairing = "base vs test" THEN <<"l">> ELSE <<>>)
    ELSE IF l.result = "0-1"
    THEN (IF l.pairing = "test vs base" THEN <<"l">> ELSE <<>>)
         \o (IF l.pairing = "base vs test" THEN <<"w">> ELSE <<>>)
    ELSE IF l.result = "1/2-1/2"
    THEN <<"d">>
    ELSE <<>>

\* lines 151-169: the loop over the sorted lines
ScoreOf(ls) == Flatten([j \in 1..Len(ls) |-> ScoreOfLine(ls[j])])

\* lines 143-169: the list run returns for the output out
ParseOutput(out) == ScoreOf(SortByGame(FinishedLines(out)))

\* every list a run can return
LocalResults == {ParseOutput(out) : out \in Outputs}

\* every list a run of r rounds can return: the external process plays
\* 2 * r games (-rounds r -games 2) and prints at most as many finished lines
RunResults(r) == {v \in LocalResults : Len(v) <= 2 * r}

---------------------------------------------------------------------------
(* Construction: __main__ and the two constructors *)

\* mutant of RoundsPerWorker: the division by workers rounds down
RoundsPerWorkerFloor(g, k) == ((g + 1) \div 2) \div k

\* line 280: rounds=((args.games_per_batch + 1) // 2 + workers - 1) // workers
RoundsPerWorker(g, k) == (((g + 1) \div 2) + k - 1) \div k

\* mutant of LocalTotalGames: a round counted as one game
LocalTotalGamesUnpaired(r) == r

\* line 83: self.total_games = 2 * rounds
LocalTotalGames(r) == 2 * r

\* line 193: self.total_games = self.batches * self.local_batch.total_games
TotalGames(b, r) == b * LocalTotalGames(r)

\* lines 275-284: the executor batch __main__ builds
Construct ==
    /\ pc = "main"
    /\ rounds' = RoundsPerWorker(games_per_batch, workers)
    /\ batches' = workers
    /\ total_games' = TotalGames(workers, rounds')
    /\ pc' = "dispatch"
    /\ UNCHANGED <<games_per_batch, workers, variables, book>>
    /\ UNCHANGED <<fs, yielded, score, raised, stats>>
    /\ UNCHANGED localVars

---------------------------------------------------------------------------
(* CutechessExecutorBatch.run and the tasks of the pool *)

\* a future as executor.submit returns it
PendingFuture == [state |-> "pending", exc |-> NoExc, value |-> <<>>]

\* lines 205-206: one iteration of the submit loop; after the last one the
\* coordinator iterates as_completed(fs)
Submit ==
    /\ pc = "dispatch"
    /\ Len(fs) < batches
    /\ fs' = Append(fs, PendingFuture)
    /\ pc' = IF Len(fs') = batches THEN "collect" ELSE "dispatch"
    /\ UNCHANGED <<yielded, score, raised, stats>>
    /\ UNCHANGED mainVars
    /\ UNCHANGED localVars

\* What becomes of a future whose task raised exc.  An Exception is stored
\* in the future.  SystemExit (sys.exit in the task) is stored in the future
\* by a pool that catches BaseException, and ends the worker by a pool that
\* does not: the future then never completes.
Failed(f, exc) ==
    {[f EXCEPT !.state = "finished", !.exc = exc]}
    \cup (IF exc.kind = "SystemExit" THEN {[f EXCEPT !.state = "lost"]} ELSE {})

\* a worker takes task i and runs local_batch.run up to Popen (lines 93-138).
\* The seed of line 132 goes to the external process only; what the process
\* prints is any output, so the seed is not kept.
Start(i) ==
    /\ i \in 1..Len(fs)
    /\ fs[i].state = "pending"
    /\ LET exc == Prepare(variables, book)
       IN  IF exc = NoExc
           THEN fs' = [fs EXCEPT ![i].state = "running"]
           ELSE \E f \in Failed(fs[i], exc) : fs' = [fs EXCEPT ![i] = f]
    /\ UNCHANGED <<pc, yielded, score, raised, stats>>
    /\ UNCHANGED mainVars
    /\ UNCHANGED localVars

\* the external process of task i exits; run ends (lines 139-169)
Finish(i) ==
    /\ i \in 1..Len(fs)
    /\ fs[i].state = "running"
    /\ \E rc \in {0, 1} :
         IF rc # 0
         THEN \E f \in Failed(fs[i], CommandFailed) : fs' = [fs EXCEPT ![i] = f]
         ELSE \E v \in RunResults(rounds) :
                 fs' = [fs EXCEPT ![i].state = "finished", ![i].value = v]
    /\ UNCHANGED <<pc, yielded, score, raised, stats>>
    /\ UNCHANGED mainVars
    /\ UNCHANGED localVars

\* mutant of CanYield: the futures are waited for in the order of submission
CanYieldInOrder(i) ==
    /\ i = Len(yielded) + 1
    /\ i \in 1..Len(fs)
    /\ fs[i].state = "finished"

\* as_completed(fs) can yield future i: it has completed and was not yielded.
\* Of several completed futures any one can come first.
CanYield(i) ==
    /\ i \in 1..Len(fs)
    /\ fs[i].state = "finished"
    /\ \A j \in 1..Len(yielded) : yielded[j] # i

\* mutant of Merge: score = f.result()
MergeOverwrite(sc, value) == value

\* mutant of ResultRaises: the exception of a failed task is swallowed
ResultNeverRaises(f) == FALSE

\* line 209: f.result() raises the exception the task ended in
ResultRaises(f) == f.exc # NoExc

\* line 209: score = score + f.result()
Merge(sc, value) == sc \o value

\* lines 208-211: one iteration of the loop over as_completed(fs); f.result()
\* raises the exception of a failed task, which leaves run; after the last
\* future the loop ends and run returns score
Collect(i) ==
    /\ pc = "collect"
    /\ CanYield(i)
    /\ yielded' = Append(yielded, i)
    /\ IF ResultRaises(fs[i])
       THEN /\ raised' = fs[i].exc
            /\ pc' = "raised"
            /\ score' = score
       ELSE /\ score' = Merge(score, fs[i].value)
            /\ pc' = IF Len(yielded') = Len(fs) THEN "returned" ELSE "collect"
            /\ raised' = raised
    /\ UNCHANGED <<fs, stats>>
    /\ UNCHANGED mainVars
    /\ UNCHANGED localVars

\* lines 285-286: print(calc_stats(results))
Estimate ==
    /\ pc = "returned"
    /\ LET st == calc_stats(score)
       IN  /\ stats' = st
           /\ pc' = IF st.error = "none" THEN "done" ELSE "error"
    /\ UNCHANGED <<fs, yielded, score, raised>>
    /\ UNCHANGED mainVars
    /\ UNCHANGED localVars

---------------------------------------------------------------------------
(* One CutechessLocalBatch.run in detail *)

\* lines 93-138: validation, book check, Popen
LStart ==
    /\ lpc = "start"
    /\ LET exc == Prepare(variables, book)
       IN  IF exc = NoExc
           THEN /\ spawned' = TRUE
                /\ lpc' = "running"
                /\ local_exc' = local_exc
           ELSE /\ spawned' = spawned
                /\ lpc' = "failed"
                /\ local_exc' = exc
    /\ UNCHANGED <<returncode, output, lines, local_score>>
    /\ UNCHANGED mainVars
    /\ UNCHANGED coordVars

\* lines 139-141: the process exits; a non-zero return code is fatal
LExit ==
    /\ lpc = "running"
    /\ \E rc \in {0, 1}, out \in Outputs :
         /\ returncode' = rc
         /\ output' = out
         /\ IF rc # 0
            THEN lpc' = "failed" /\ local_exc' = CommandFailed
            ELSE lpc' = "exited" /\ local_exc' = local_exc
    /\ UNCHANGED <<spawned, lines, local_score>>
    /\ UNCHANGED mainVars
    /\ UNCHANGED coordVars

\* lines 143-169: the finished lines, sorted, and their outcomes
LParse ==
    /\ lpc = "exited"
    /\ lines' = SortByGame(FinishedLines(output))
    /\ local_score' = ScoreOf(lines')
    /\ lpc' = "done"
    /\ UNCHANGED <<spawned, returncode, output, local_exc>>
    /\ UNCHANGED mainVars
    /\ UNCHANGED coordVars

---------------------------------------------------------------------------
(* Specifications *)

\* the defaults of CutechessLocalBatch.__init__
DefaultBook == <<"x", ".", "e", "p", "d">>
DefaultRounds == 100

CoordIdle ==
    /\ fs = <<>>
    /\ yielded = <<>>
    /\ score = <<>>
    /\ raised = NoExc
    /\ stats = [error |-> "unset"]

LocalIdle ==
    /\ spawned = FALSE
    /\ returncode = 0
    /\ output = <<>>
    /\ lines = <<>>
    /\ local_score = <<>>
    /\ local_exc = NoExc

\* __main__ after argument parsing, for any games_per_batch and workers
InitMain ==
    /\ games_per_batch \in 0..MaxGames
    /\ workers \in 1..MaxMainWorkers
    /\ variables = <<"1.5">>
    /\ book = DefaultBook
    /\ rounds = 0 /\ batches = 0 /\ total_games = 0
    /\ pc = "main"
    /\ CoordIdle
    /\ lpc = "idle"
    /\ LocalIdle

NextMain == Construct

SpecMain == InitMain /\ [][NextMain]_vars

\* the parameter assignments and books the whole program is run with
RunAssignments == {<<"1.5">>, <<"'abc'">>, <<"null">>}
RunBooks == {DefaultBook, <<"x", ".", "b", "i", "n">>}

\* __main__ after argument parsing; games_per_batch is such that each worker
\* is asked for at most MaxLines games, the most its process can print
Init ==
    /\ workers \in 1..MaxBatches
    /\ \E r \in 0..(MaxLines \div 2) : games_per_batch = 2 * workers * r
    /\ variables \in RunAssignments
    /\ book \in RunBooks
    /\ rounds = 0 /\ batches = 0 /\ total_games = 0
    /\ pc = "main"
    /\ CoordIdle
    /\ lpc = "idle"
    /\ LocalIdle

\* the steps of the main thread up to the return of run
Coordinator == Construct \/ Submit \/ (\E i \in 1..MaxBatches : Collect(i))

Worker(i) == Start(i) \/ Finish(i)

Next ==
    \/ Construct
    \/ Submit
    \/ \E i \in 1..MaxBatches : Start(i)
    \/ \E i \in 1..MaxBatches : Finish(i)
    \/ \E i \in 1..MaxBatches : Collect(i)
    \/ Estimate

Spec == Init /\ [][Next]_vars

\* the main thread runs while it can, up to the return of run, and a task
\* that can make a step makes it: the pool starts a submitted task, and the
\* external process of a started task exits
FairSpec ==
    /\ Spec
    /\ WF_vars(Coordinator)
    /\ \A i \in 1..MaxBatches : WF_vars(Worker(i))

\* a local batch as constructed, about to run
InitLocal ==
    /\ games_per_batch = 0
    /\ workers = 1
    /\ variables \in Assignments
    /\ book \in Books
    /\ rounds = DefaultRounds /\ batches = 0 /\ total_games = 0
    /\ pc = "idle"
    /\ CoordIdle
    /\ lpc = "start"
    /\ LocalIdle

NextLocal == LStart \/ LExit \/ LParse

SpecLocal == InitLocal /\ [][NextLocal]_vars

---------------------------------------------------------------------------
(* Properties *)

Outcomes == {"w", "l", "d"}

\* run has returned its list
Returned == pc \in {"returned", "done", "error"}

\* task i did not give a result: it raised, or its worker ended
TaskFailed(i) == fs[i].state = "lost" \/ fs[i].exc # NoExc

RECURSIVE SumCount(_, _)
\* the number of entries x in the results of the first n futures
SumCount(n, x) ==
    IF n = 0 THEN 0 ELSE Count(fs[n].value, x) + SumCount(n - 1, x)

RECURSIVE SumLen(_)
SumLen(n) == IF n = 0 THEN 0 ELSE Len(fs[n].value) + SumLen(n - 1)

\* the orders in which n fragments can be concatenated
Orders(n) == {o \in [1..n -> 1..n] : \A i, j \in 1..n : o[i] = o[j] => i = j}

\* C1: when run returns, and so every sub-batch has succeeded, the returned
\* list holds every outcome of every sub-batch result exactly once, whatever
\* the order of completion: its counts of w, l and d are the sums of the
\* sub-batches' counts, and its length the sum of their lengths.
C1_MergeKeepsEveryOutcome ==
    Returned =>
        /\ \A x \in Outcomes : Count(score, x) = SumCount(Len(fs), x)
        /\ Len(score) = SumLen(Len(fs))

\* two sub-batches with different results, collected against the order of
\* submission
C1_Witness ==
    /\ pc = "returned"
    /\ yielded = <<2, 1>>
    /\ fs[1].value = <<"w", "d">>
    /\ fs[2].value = <<"l">>

\* C2: when every sub-batch succeeded, run returns exactly 2 * batches *
\* rounds outcomes, each sub-batch giving 2 * rounds, whatever the external
\* process printed.
C2_ExactlyTwoRoundsPerBatch ==
    Returned =>
        /\ Len(score) = 2 * batches * rounds
        /\ \A i \in 1..Len(fs) : Len(fs[i].value) = 2 * rounds

\* C3: in a run where some sub-batch failed, run never returns a list.
C3_FailurePropagates ==
    (\E i \in 1..Len(fs) : TaskFailed(i)) => ~Returned

\* the external process of one sub-batch exits non-zero after the result of
\* another sub-batch was collected: the failure leaves run
C3_Witness ==
    /\ pc = "raised"
    /\ raised = CommandFailed
    /\ Len(yielded) = 2
    /\ fs[yielded[1]].exc = NoExc
    /\ fs[yielded[1]].value # <<>>

\* C4: calc_stats on a list without any w, l or d fails with the error kind
\* EstimationError.
C4_EstimationError ==
    (pc \in {"done", "error"} /\ \A x \in Outcomes : Count(score, x) = 0)
        => stats.error = "EstimationError"

\* C5: a run with a parameter value that is no real number ends in the
\* InvalidParameter error (the exit with the message "invalid value for
\* parameter") naming that parameter, before the external process is started.
C5_InvalidParameter ==
    (lpc # "start" /\ FirstBad(variables) # 0) =>
        /\ lpc = "failed"
        /\ ~spawned
        /\ local_exc.kind = "SystemExit"
        /\ local_exc.msg = "invalid value for parameter"
        /\ local_exc.arg = ParamName(FirstBad(variables))

\* the least c with 2 * c >= g
CeilHalf(g) == CHOOSE c \in 0..g : 2 * c >= g /\ \A b \in 0..g : 2 * b >= g => c <= b

\* C6: the rounds per worker __main__ computes cover the requested games:
\* rounds * workers >= ceil(games_per_batch / 2), so 2 * rounds * workers >=
\* games_per_batch.
C6_RoundsRoundUp ==
    pc = "dispatch" =>
        /\ rounds * workers >= CeilHalf(games_per_batch)
        /\ 2 * rounds * workers >= games_per_batch

\* a request the workers do not divide: 5 games for 2 workers
C6_Witness ==
    /\ pc = "dispatch"
    /\ games_per_batch = 5
    /\ workers = 2
    /\ rounds = 2

\* C7 as stated: the requested games are 2 * workers * rounds and are
\* total_games.
C7_RequestedEqualsAssigned ==
    pc = "dispatch" =>
        /\ games_per_batch = 2 * workers * rounds
        /\ games_per_batch = total_games

\* C7 as amended: total_games is 2 * workers * rounds, and it is the
\* requested games rounded up to the next multiple of 2 * workers: at least
\* the request, and less than a request plus 2 * workers.
C7_AssignedCoversRequested ==
    pc = "dispatch" =>
        /\ batches = workers
        /\ total_games = 2 * workers * rounds
        /\ games_per_batch <= total_games
        /\ total_games < games_per_batch + 2 * workers

\* a request that is rounded up
C7_Witness ==
    /\ pc = "dispatch"
    /\ games_per_batch = 7
    /\ workers = 3
    /\ total_games = 12

\* C8: run submits exactly batches tasks before it collects; it returns only
\* when every submitted task has completed and was collected; while it
\* collects, a completed task that was not collected can be collected at
\* once, whatever the other tasks do; and unless some task fails, run
\* eventually returns.
C8_CollectsAllInAnyOrder ==
    /\ [](pc \notin {"main", "dispatch"} => Len(fs) = batches)
    /\ [](Returned => \A i \in 1..Len(fs) :
             fs[i].state = "finished" /\ \E j \in 1..Len(yielded) : yielded[j] = i)
    /\ [](\A i \in 1..Len(fs) :
             (/\ pc = "collect"
              /\ fs[i].state = "finished"
              /\ \A j \in 1..Len(yielded) : yielded[j] # i) => ENABLED Collect(i))
    /\ <>(Returned \/ \E i \in 1..Len(fs) : TaskFailed(i))

\* run returned after the second task completed and was collected first
C8_Witness ==
    /\ Returned
    /\ batches = 2
    /\ yielded = <<2, 1>>

\* the outcome of a finished-match record, from the side of test
Normalised(l) ==
    CASE l.result = "1-0" /\ l.pairing = "test vs base" -> "w"
      [] l.result = "1-0" /\ l.pairing = "base vs test" -> "l"
      [] l.result = "0-1" /\ l.pairing = "test vs base" -> "l"
      [] l.result = "0-1" /\ l.pairing = "base vs test" -> "w"
      [] l.result = "1/2-1/2" -> "d"
      [] OTHER -> "none"

\* C9 as stated: every finished-match record gives exactly one outcome, the
\* result seen from test, and there are as many outcomes as records.
C9_OneOutcomePerRecord ==
    lpc = "done" =>
        /\ Len(local_score) = Len(lines)
        /\ \A j \in 1..Len(lines) :
              j <= Len(local_score) /\ local_score[j] = Normalised(lines[j])

\* the records with a result 1-0, 0-1 or 1/2-1/2
Decided(ls) == SelectSeq(ls, LAMBDA l : l.result \in {"1-0", "0-1", "1/2-1/2"})

\* C9 as amended: every finished-match record with result 1-0, 0-1 or
\* 1/2-1/2 gives exactly one outcome, the result seen from test; a record
\* with another result gives none, so there are as many outcomes as records
\* with one of the three results.
C9_OneOutcomePerDecidedRecord ==
    lpc = "done" =>
        /\ Len(lines) = Cardinality({j \in 1..Len(output) : output[j].head = "Finished game"})
        /\ Len(local_score) = Len(Decided(lines))
        /\ \A j \in 1..Len(Decided(lines)) :
              local_score[j] = Normalised(Decided(lines)[j])

\* a game without result beside a win of test with the black pieces
C9_Witness ==
    /\ lpc = "done"
    /\ Len(lines) = 2
    /\ lines[1].result = "*"
    /\ lines[2].result = "0-1"
    /\ lines[2].pairing = "base vs test"
    /\ local_score = <<"w">>

\* C10: the statistics of the merged list do not depend on the order in
\* which the fragments were concatenated: every order gives the result that
\* calc_stats gave for the order of completion.
C10_MergeOrderInvariance ==
    pc = "done" =>
        \A o \in Orders(Len(fs)) :
            calc_stats(Flatten([j \in 1..Len(fs) |-> fs[o[j]].value])) = stats

\* the fragments were merged against the order of submission, and the two
\* orders give different lists
C10_Witness ==
    /\ pc = "done"
    /\ yielded = <<2, 1>>
    /\ fs[1].value = <<"w">>
    /\ fs[2].value = <<"l", "d">>
    /\ score = <<"l", "d", "w">>

============================================================================
